---- MODULE Spec2Model ----
(***************************************************************************)
(* Model of the generate -> review -> validate -> retry-once pipeline of   *)
(* the programming-assistant scripts (Tasks/task333.py, Tasks/task3333.py, *)
(* Tasks/task4.py, Tasks/task44.py, secure_chroma/task33.py) and of the    *)
(* run_agent / extract_code pipeline of new.py.                            *)
(*                                                                         *)
(* Text is a sequence of characters over a small alphabet:                 *)
(*   "tick"  one backtick (three in a row are a markdown fence)            *)
(*   "p"  the word python, lower case, as one atom                         *)
(*   "P"  the word python in another case (Python, PYTHON), as one atom    *)
(*   " "  a whitespace character                                           *)
(*   "x"  a chunk of text that is valid Python source                      *)
(*   "!"  a chunk of text that is a Python syntax error                    *)
(*   "~"  a chunk of text nested deeper than the parser can follow         *)
(* Optional values (Python's None) are sets: {} is None, {v} is v.         *)
(***************************************************************************)
EXTENDS Naturals, Sequences, FiniteSets

VARIABLES
    variant,      \* which script runs
    url,          \* OLLAMA_URL as read at process start (None when unset)
    pc,           \* where the button handler / programming_assistant stands
    idx,          \* position in the chain of stages
    task,         \* user_query / task, as typed
    language,     \* the selected target language
    code,         \* the local variable code / cleaned_code
    valid,        \* the local variable valid
    error,        \* the local variable error
    prompt,       \* what the last prompt sent to the model embeds
    kept,         \* texts the run keeps for display besides the code
    calls,        \* how often each kind of call was made in this run
    firstResult,  \* the first Validation Result of the run
    retryRaw,     \* the raw output of the retry stage
    final,        \* what the run hands to the page as its result
    failedAt,     \* the value of calls when a stage call failed
    vIn, vLang, vOut,  \* argument(s) and result of a pure function
    vAgain,       \* the result of the function applied to its own result
    runs          \* the locals of each of several runs served side by side

vars == <<variant, url, pc, idx, task, language, code, valid, error,
          prompt, kept, calls, firstResult, retryRaw, final, failedAt,
          vIn, vLang, vOut, vAgain, runs>>

pipeVars == <<variant, url, pc, idx, task, language, code, valid, error,
              prompt, kept, calls, firstResult, retryRaw, final, failedAt>>

pureVars == <<vIn, vLang, vOut, vAgain>>

None == {}

Some(v) == {v}

TheOne(S) == CHOOSE v \in S : TRUE

\* F(v), with v evaluated once before F is applied to it
Then(v, F(_)) == TheOne({F(x) : x \in {v}})

\* ------------------------------------------------------------------ text

BT == "tick"

Fence == <<BT, BT, BT>>

FencePython == <<BT, BT, BT, "p">>

IsSpace(c) == c = " "

\* s[i..] starts with pat
StartsWithAt(s, i, pat) ==
    /\ i + Len(pat) - 1 <= Len(s)
    /\ \A k \in 1..Len(pat) : s[i + k - 1] = pat[k]

\* str.replace(pat, ""): leftmost, non-overlapping occurrences removed
RECURSIVE ReplaceFrom(_, _, _)
ReplaceFrom(s, i, pat) ==
    IF i > Len(s) THEN <<>>
    ELSE IF StartsWithAt(s, i, pat) THEN ReplaceFrom(s, i + Len(pat), pat)
    ELSE <<s[i]>> \o ReplaceFrom(s, i + 1, pat)

Replace(s, pat) == ReplaceFrom(s, 1, pat)

RECURSIVE LStrip(_)
LStrip(s) == IF s # <<>> /\ IsSpace(Head(s)) THEN LStrip(Tail(s)) ELSE s

RECURSIVE RStrip(_)
RStrip(s) ==
    IF s # <<>> /\ IsSpace(s[Len(s)]) THEN RStrip(SubSeq(s, 1, Len(s) - 1)) ELSE s

\* str.strip()
Strip(s) == Then(LStrip(s), RStrip)

ContainsFence(s) == \E i \in 1..Len(s) : StartsWithAt(s, i, Fence)

IsTrimmed(s) == s = <<>> \/ (~IsSpace(s[1]) /\ ~IsSpace(s[Len(s)]))

\* str.lower() on the language names the scripts see
lower(l) ==
    CASE l \in {"Python", "python", "PYTHON"} -> "python"
      [] l \in {"Java", "java"} -> "java"
      [] l = "C++" -> "c++"
      [] l \in {"C", "c"} -> "c"

\* ------------------------------------------------------ syntax validator

\* position of the first character the Python parser rejects, 0 if none:
\* a syntax-error chunk, a backtick left in the source, or a chunk nested
\* too deep
RECURSIVE FirstBadFrom(_, _)
FirstBadFrom(s, i) ==
    IF i > Len(s) THEN 0
    ELSE IF s[i] \in {"!", BT, "~"} THEN i
    ELSE FirstBadFrom(s, i + 1)

\* compile(cleaned, "<string>", "exec") returns without raising
compile_ok(cleaned) == FirstBadFrom(cleaned, 1) = 0

\* the empty string: a message with no kind and no location
EmptyStr == [kind |-> "", at |-> 0]

\* str(e) of the exception compile raised: kind and location of a
\* SyntaxError; nothing at all for the MemoryError the parser raises from
\* nesting too deep, which carries no message
str_e(cleaned) ==
    IF cleaned[FirstBadFrom(cleaned, 1)] = "~"
    THEN EmptyStr
    ELSE [kind |-> "SyntaxError", at |-> FirstBadFrom(cleaned, 1)]

\* the try / except around compile
Compiled(cleaned) ==
    IF compile_ok(cleaned)
    THEN [valid |-> TRUE, error |-> None, code |-> cleaned]
    ELSE [valid |-> FALSE, error |-> Some(str_e(cleaned)), code |-> cleaned]

\* a replace that stops after the first fence marker
RECURSIVE RemoveFence_first_only(_)
RemoveFence_first_only(s) ==
    IF s = <<>> THEN s
    ELSE IF StartsWithAt(s, 1, Fence) THEN SubSeq(s, 4, Len(s))
    ELSE <<Head(s)>> \o RemoveFence_first_only(Tail(s))

\* .replace of the bare fence marker by nothing
RemoveFence(s) == Replace(s, Fence)

python_validate(c) ==
    Then(Then(Then(Replace(c, FencePython), RemoveFence), Strip), Compiled)

\* validate_code that parses every language as Python
validate_code_parses_all(c, l) == python_validate(c)

validate_code(c, l) ==
    IF lower(l) = "python"
    THEN python_validate(c)
    ELSE [valid |-> TRUE, error |-> None, code |-> c]

\* ------------------------------------------------------- code extractor

\* re.IGNORECASE: the two spellings of the language tag match each other
Fold(c) == IF c = "P" THEN "p" ELSE c

MatchesAt(s, i, pat, ignorecase) ==
    /\ i + Len(pat) - 1 <= Len(s)
    /\ \A k \in 1..Len(pat) :
          IF ignorecase THEN Fold(s[i + k - 1]) = Fold(pat[k])
          ELSE s[i + k - 1] = pat[k]

\* \s* (greedy): the first position at or after i that holds no whitespace
RECURSIVE SkipSpace(_, _)
SkipSpace(s, i) ==
    IF i <= Len(s) /\ IsSpace(s[i]) THEN SkipSpace(s, i + 1) ELSE i

\* (.*?)``` (lazy, DOTALL): the first fence at or after i, 0 if there is none
RECURSIVE NextFence(_, _)
NextFence(s, i) ==
    IF i + 2 > Len(s) THEN 0
    ELSE IF StartsWithAt(s, i, Fence) THEN i
    ELSE NextFence(s, i + 1)

\* the pattern  open \s* (.*?) ```  tried at position i: group(1), or None
MatchBlockAt(s, i, open, ignorecase) ==
    IF ~MatchesAt(s, i, open, ignorecase) THEN None
    ELSE LET b == SkipSpace(s, i + Len(open))
             e == NextFence(s, b)
         IN  IF e = 0 THEN None ELSE Some(SubSeq(s, b, e - 1))

\* re.search: the match at the leftmost position where the pattern matches
RECURSIVE SearchFrom(_, _, _, _)
SearchFrom(s, i, open, ignorecase) ==
    IF i > Len(s) THEN None
    ELSE LET m == MatchBlockAt(s, i, open, ignorecase)
         IN  IF m # None THEN m ELSE SearchFrom(s, i + 1, open, ignorecase)

re_search(s, open, ignorecase) == SearchFrom(s, 1, open, ignorecase)

\* extract_code whose last line forgets to remove the fence markers
extract_code_fallback_raw(text) ==
    IF text = <<>> THEN <<>>
    ELSE LET python_block == re_search(text, FencePython, TRUE)
             generic_block == re_search(text, Fence, FALSE)
         IN  IF python_block # None THEN Then(TheOne(python_block), Strip)
             ELSE IF generic_block # None THEN Then(TheOne(generic_block), Strip)
             ELSE Strip(text)

\* extract_code with the two searches in the other order
extract_code_generic_first(text) ==
    IF text = <<>> THEN <<>>
    ELSE LET python_block == re_search(text, FencePython, TRUE)
             generic_block == re_search(text, Fence, FALSE)
         IN  IF generic_block # None THEN Then(TheOne(generic_block), Strip)
             ELSE IF python_block # None THEN Then(TheOne(python_block), Strip)
             ELSE Then(Replace(text, Fence), Strip)

extract_code(text) ==
    IF text = <<>> THEN <<>>
    ELSE LET python_block == re_search(text, FencePython, TRUE)
             generic_block == re_search(text, Fence, FALSE)
         IN  IF python_block # None THEN Then(TheOne(python_block), Strip)
             ELSE IF generic_block # None THEN Then(TheOne(generic_block), Strip)
             ELSE Then(Replace(text, Fence), Strip)

\* ------------------------------------------------ inputs of pure functions

MaxValidatePieces == 4

MaxExtractPieces == 6

\* the validator's inputs: fences, stray backticks, tags, blanks, good code,
\* bad code and code nested too deep
ValidatePieces ==
    {Fence, <<BT>>, <<"p">>, <<"P">>, <<" ">>, <<"x">>, <<"!">>, <<"~">>}

\* the extractor's inputs: the same without the bad code, which it never parses
ExtractPieces == {Fence, <<BT>>, <<"p">>, <<"P">>, <<" ">>, <<"x">>}

RECURSIVE Concat(_)
Concat(ps) == IF ps = <<>> THEN <<>> ELSE Head(ps) \o Concat(Tail(ps))

\* every text made of at most n pieces
PieceSeqs(P, n) == UNION {[1..k -> P] : k \in 0..n}

Texts(P, n) == {Concat(ps) : ps \in PieceSeqs(P, n)}

NoCalls ==
    [stage |-> 0, qa |-> 0, retry |-> 0, validate |-> 0, extract |-> 0, fail |-> 0]

ValidatorLanguages == {"Python", "python", "PYTHON", "Java", "C++", "C"}

\* no run is being served
NoRuns == <<>>

PipeDormant ==
    /\ variant = "none" /\ url = None /\ pc = "off" /\ idx = 0
    /\ task = <<>> /\ language = "Python" /\ code = <<>>
    /\ valid = FALSE /\ error = None /\ prompt = None /\ kept = <<>>
    /\ calls = NoCalls
    /\ firstResult = None /\ retryRaw = None /\ final = None /\ failedAt = None

\* validate_code as a pure function of its two arguments
InitValidate ==
    /\ PipeDormant
    /\ vIn \in Texts(ValidatePieces, MaxValidatePieces)
    /\ vLang \in ValidatorLanguages
    /\ vOut = None /\ vAgain = None /\ runs = NoRuns

ValidateCode ==
    /\ vOut = None
    /\ vOut' = Some(validate_code(vIn, vLang))
    /\ UNCHANGED <<vIn, vLang, vAgain, runs>>
    /\ UNCHANGED pipeVars

\* the code a validation returned, validated once more
Revalidate ==
    /\ vOut # None
    /\ vAgain = None
    /\ vAgain' = Some(validate_code(TheOne(vOut).code, vLang))
    /\ UNCHANGED <<vIn, vLang, vOut, runs>>
    /\ UNCHANGED pipeVars

NextValidate == ValidateCode \/ Revalidate

SpecValidate == InitValidate /\ [][NextValidate]_vars

\* extract_code as a pure function of the model output
InitExtract ==
    /\ PipeDormant
    /\ vIn \in Texts(ExtractPieces, MaxExtractPieces)
    /\ vLang = "Python"
    /\ vOut = None /\ vAgain = None /\ runs = NoRuns

ExtractCode ==
    /\ vOut = None
    /\ vOut' = Some(extract_code(vIn))
    /\ UNCHANGED <<vIn, vLang, vAgain, runs>>
    /\ UNCHANGED pipeVars

SpecExtract == InitExtract /\ [][ExtractCode]_vars

\* ------------------------------------------------------------ pipeline

Variants == {"task333", "task33", "task3333", "task4", "task44", "new"}

\* the scripts that post to OLLAMA_URL themselves, through requests
DirectVariants == {"task333", "task33"}

\* the scripts that hand OLLAMA_URL to the crew's LLM wrapper
CrewVariants == {"task3333", "task4", "task44"}

\* the scripts with a language selectbox; the others are Python only
HasLanguageChoice(v) == v \in {"task333", "task3333", "task4"}

\* the scripts that validate the code and retry once
HasValidator(v) == v \in {"task333", "task33", "task3333", "task4"}

\* the options of the language selectbox
Languages == {"Python", "Java", "C++", "C"}

\* the stages of each script, in the order they run
Chain(v) ==
    CASE v \in {"task333", "task33", "task3333"} -> <<"Developer", "QA">>
      [] v = "task4" -> <<"UseCase", "Developer", "QA", "Testing">>
      [] v = "task44" -> <<"UseCase", "Developer", "QA", "Validation",
                           "UseCaseTest", "FinalCode">>
      [] v = "new" -> <<"Explainer", "Developer", "Debugger", "Reviewer",
                        "UseCaseGenerator">>

\* what the user may type into the text area
TaskTexts == {<<>>, <<" ">>, <<"x">>}

\* what the model may answer
Responses ==
    { <<"x">>,                                      \* valid code, bare
      <<"!">>,                                      \* a syntax error, bare
      FencePython \o <<" ", "x", " ">> \o Fence,     \* valid code, tagged fence
      FencePython \o <<"!">> \o Fence,               \* a syntax error, tagged fence
      Fence \o <<"x">> \o Fence,                     \* valid code, untagged fence
      <<" ", "x", " ">>,                            \* valid code in blanks
      <<"x", BT>>,                                  \* a stray backtick
      <<>> }                                        \* nothing

\* the test of the text area without the strip() of new.py
EmptyInput_unstripped(v, t) == t = <<>>

\* the button handler's test of the text area
EmptyInput(v, t) == IF v = "new" THEN Strip(t) = <<>> ELSE t = <<>>

Prompt(stage, lang, t, c, e) ==
    [stage |-> stage, language |-> lang, task |-> t, code |-> c, error |-> e]

\* stage prompts that all embed the task and never the code so far
StagePrompt_task_only(v, i, t, l, c) ==
    Prompt(Chain(v)[i],
           IF v \in {"task33", "task44", "new"} THEN Some("Python") ELSE Some(l),
           Some(t), None, None)

\* what the prompt of stage i of the chain embeds
StagePrompt(v, i, t, l, c) ==
    LET stage == Chain(v)[i]
        lang == IF v \in {"task33", "task44", "new"} THEN Some("Python") ELSE Some(l)
    IN  IF i = 1 THEN Prompt(stage, lang, Some(t), None, None)
        ELSE IF v = "new" /\ i = 2 THEN Prompt(stage, lang, Some(t), None, None)
        ELSE Prompt(stage, lang, None, Some(c), None)

\* a retry prompt that leaves the diagnostic out in every script
RetryPrompt_without_error(v, l, c, e) ==
    Prompt("QA", IF v = "task33" THEN Some("Python") ELSE Some(l), None, Some(c), None)

\* what the prompt of the retry embeds
RetryPrompt(v, l, c, e) ==
    IF v \in DirectVariants
    THEN Prompt("QA", IF v = "task33" THEN Some("Python") ELSE Some(l), None, Some(c), None)
    ELSE Prompt("QA", Some("Python"), None, Some(c), e)

Validated(v, c, l) == IF v = "task33" THEN python_validate(c) ELSE validate_code(c, l)

\* a retry test that never asks for the retry
NeedsRetry_never(v, ok, l) == FALSE

NeedsRetry(v, ok, l) == IF v = "task33" THEN ~ok ELSE ~ok /\ lower(l) = "python"

\* requests.post(None, ...) raises before anything is sent
CanAnswer(v, u) == ~(v \in DirectVariants /\ u = None)

Bump(c, fields) == [f \in DOMAIN c |-> IF f \in fields THEN c[f] + 1 ELSE c[f]]

Init ==
    /\ variant \in Variants
    /\ url \in IF variant = "new" THEN {Some("default")} ELSE {None, Some("env")}
    /\ pc = "idle" /\ idx = 0
    /\ task = <<>> /\ language = "Python" /\ code = <<>>
    /\ valid = FALSE /\ error = None /\ prompt = None /\ kept = <<>>
    /\ calls = NoCalls
    /\ firstResult = None /\ retryRaw = None /\ final = None /\ failedAt = None
    /\ vIn = <<>> /\ vLang = "Python" /\ vOut = None
    /\ vAgain = None /\ runs = NoRuns

\* the button is pressed with t in the text area and l selected
Submit ==
    /\ pc = "idle"
    /\ \E t \in TaskTexts : \E l \in Languages :
          /\ HasLanguageChoice(variant) \/ l = "Python"
          /\ task' = t
          /\ language' = l
          /\ IF EmptyInput(variant, t)
             THEN pc' = "rejected" /\ idx' = idx
             ELSE pc' = "stage" /\ idx' = 1
    /\ UNCHANGED <<variant, url, code, valid, error, prompt, kept, calls,
                   firstResult, retryRaw, final, failedAt>>
    /\ UNCHANGED <<pureVars, runs>>

StageCounters(stage) == IF stage = "QA" THEN {"stage", "qa"} ELSE {"stage"}

\* task44 keeps the reports of its first and fifth task
Keeps(v, i) == v = "task44" /\ i \in {1, 5}

\* a stage of the chain answers with r
StageReturns ==
    /\ pc = "stage" /\ variant # "new"
    /\ CanAnswer(variant, url)
    /\ \E r \in Responses :
          /\ code' = r
          /\ kept' = IF Keeps(variant, idx) THEN Append(kept, r) ELSE kept
          /\ IF idx < Len(Chain(variant))
             THEN pc' = "stage" /\ idx' = idx + 1 /\ final' = final
             ELSE /\ idx' = idx
                  /\ IF HasValidator(variant)
                     THEN pc' = "validate" /\ final' = final
                     ELSE pc' = "done" /\ final' = Some([code |-> r, reports |-> kept'])
    /\ prompt' = Some(StagePrompt(variant, idx, task, language, code))
    /\ calls' = Bump(calls, StageCounters(Chain(variant)[idx]))
    /\ UNCHANGED <<variant, url, task, language, valid, error, firstResult,
                   retryRaw, failedAt>>
    /\ UNCHANGED <<pureVars, runs>>

\* a failed stage call that is caught and tried again
StageFails_retried ==
    /\ pc = "stage" /\ variant # "new"
    /\ calls.fail < 2
    /\ prompt' = Some(StagePrompt(variant, idx, task, language, code))
    /\ calls' = Bump(calls, StageCounters(Chain(variant)[idx]) \cup {"fail"})
    /\ failedAt' = Some(calls')
    /\ pc' = "stage"
    /\ UNCHANGED <<variant, url, idx, task, language, code, valid, error, kept,
                   firstResult, retryRaw, final>>
    /\ UNCHANGED <<pureVars, runs>>

\* the call of a stage of the chain raises: nothing catches it
StageFails ==
    /\ pc = "stage" /\ variant # "new"
    /\ prompt' = Some(StagePrompt(variant, idx, task, language, code))
    /\ calls' = Bump(calls, StageCounters(Chain(variant)[idx]) \cup {"fail"})
    /\ failedAt' = Some(calls')
    /\ pc' = "aborted"
    /\ UNCHANGED <<variant, url, idx, task, language, code, valid, error, kept,
                   firstResult, retryRaw, final>>
    /\ UNCHANGED <<pureVars, runs>>

\* valid, error, code = validate_code(code, language), then the retry test
Validate ==
    /\ pc = "validate"
    /\ \E r \in {Validated(variant, code, language)} :
          /\ valid' = r.valid /\ error' = r.error /\ code' = r.code
          /\ firstResult' = Some(r)
          /\ IF NeedsRetry(variant, r.valid, language)
             THEN pc' = "retry" /\ final' = final
             ELSE pc' = "done" /\ final' = Some(r)
    /\ calls' = Bump(calls, {"validate"})
    /\ UNCHANGED <<variant, url, idx, task, language, prompt, kept, retryRaw, failedAt>>
    /\ UNCHANGED <<pureVars, runs>>

\* the retry stage answers with r
RetryReturns ==
    /\ pc = "retry"
    /\ CanAnswer(variant, url)
    /\ \E r \in Responses : code' = r /\ retryRaw' = Some(r)
    /\ prompt' = Some(RetryPrompt(variant, language, code, error))
    /\ calls' = Bump(calls, {"stage", "qa", "retry"})
    /\ pc' = "validate2"
    /\ UNCHANGED <<variant, url, idx, task, language, valid, error, kept,
                   firstResult, final, failedAt>>
    /\ UNCHANGED <<pureVars, runs>>

\* the call of the retry stage raises
RetryFails ==
    /\ pc = "retry"
    /\ prompt' = Some(RetryPrompt(variant, language, code, error))
    /\ calls' = Bump(calls, {"stage", "qa", "retry", "fail"})
    /\ failedAt' = Some(calls')
    /\ pc' = "aborted"
    /\ UNCHANGED <<variant, url, idx, task, language, code, valid, error, kept,
                   firstResult, retryRaw, final>>
    /\ UNCHANGED <<pureVars, runs>>

\* a second validation that loops back into the retry while the code is invalid
ValidateRetry_until_valid ==
    /\ pc = "validate2"
    /\ calls.retry < 3
    /\ \E r \in {Validated(variant, code, language)} :
          /\ valid' = r.valid /\ error' = r.error /\ code' = r.code
          /\ IF NeedsRetry(variant, r.valid, language)
             THEN pc' = "retry" /\ final' = final
             ELSE pc' = "done" /\ final' = Some(r)
    /\ calls' = Bump(calls, {"validate"})
    /\ UNCHANGED <<variant, url, idx, task, language, prompt, kept, firstResult,
                   retryRaw, failedAt>>
    /\ UNCHANGED <<pureVars, runs>>

\* a second validation whose diagnostic is dropped: the first one is returned
ValidateRetry_keeps_first_error ==
    /\ pc = "validate2"
    /\ \E r \in {Validated(variant, code, language)} :
          /\ valid' = r.valid /\ error' = error /\ code' = r.code
          /\ final' = Some([valid |-> r.valid, error |-> error, code |-> r.code])
    /\ calls' = Bump(calls, {"validate"})
    /\ pc' = "done"
    /\ UNCHANGED <<variant, url, idx, task, language, prompt, kept, firstResult,
                   retryRaw, failedAt>>
    /\ UNCHANGED <<pureVars, runs>>

\* the second validation and the return of programming_assistant
ValidateRetry ==
    /\ pc = "validate2"
    /\ \E r \in {Validated(variant, code, language)} :
          /\ valid' = r.valid /\ error' = r.error /\ code' = r.code
          /\ final' = Some(r)
    /\ calls' = Bump(calls, {"validate"})
    /\ pc' = "done"
    /\ UNCHANGED <<variant, url, idx, task, language, prompt, kept, firstResult,
                   retryRaw, failedAt>>
    /\ UNCHANGED <<pureVars, runs>>

\* --------------------------------------------------- pipeline of new.py

\* "[ERROR] <agent name>: <e>"
ErrorText(name) == <<"[ERROR]", " ", name, ":", " ", "e">>

\* what agent.run may do: answer with content, answer without, raise
Outcomes ==
    [kind : {"content"}, content : Responses]
        \cup {[kind |-> "missing", content |-> <<>>], [kind |-> "raise", content |-> <<>>]}

\* run_agent whose except clause swallows the error
run_agent_silent(name, o) ==
    CASE o.kind \in {"raise", "object"} -> <<>>
      [] o.kind = "missing" -> <<>>
      [] OTHER -> IF o.content # <<>> THEN Strip(o.content) ELSE <<>>

\* the try / except of run_agent: a raise of agent.run, or of .strip() on a
\* content that is no string, becomes the error text
run_agent(name, o) ==
    CASE o.kind \in {"raise", "object"} -> ErrorText(name)
      [] o.kind = "missing" -> <<>>
      [] OTHER -> IF o.content # <<>> THEN Strip(o.content) ELSE <<>>

MaxAgentPieces == 3

\* what agent.run may do, with any short text as content, or with a content
\* that is an object and no string
AgentOutcomes ==
    [kind : {"content"}, content : Texts(ExtractPieces, MaxAgentPieces)]
        \cup {[kind |-> k, content |-> <<>>] : k \in {"missing", "raise", "object"}}

AgentNames == {Chain("new")[i] : i \in 1..Len(Chain("new"))}

\* run_agent as a pure function of the agent and of what agent.run does
InitRunAgent ==
    /\ PipeDormant
    /\ vIn \in AgentOutcomes
    /\ vLang \in AgentNames
    /\ vOut = None /\ vAgain = None /\ runs = NoRuns

RunAgent ==
    /\ vOut = None
    /\ vOut' = Some(run_agent(vLang, vIn))
    /\ UNCHANGED <<vIn, vLang, vAgain, runs>>
    /\ UNCHANGED pipeVars

SpecRunAgent == InitRunAgent /\ [][RunAgent]_vars

\* a handler that takes the code out of every later stage's text
Extracted_from_every_stage(name) == name # "Explainer"

\* the stages whose text the handler passes through extract_code
Extracted(name) == name \in {"Developer", "Debugger"}

\* one step of the button handler of new.py: a stage through run_agent and
\* what the handler does with its text before the next stage
NewStage ==
    /\ pc = "stage" /\ variant = "new"
    /\ \E o \in Outcomes : \E text \in {run_agent(Chain("new")[idx], o)} :
          LET name == Chain("new")[idx]
              fails == IF o.kind = "raise" THEN {"fail"} ELSE {}
          IN  /\ failedAt' = IF o.kind = "raise" /\ failedAt = None
                             THEN Some(Bump(calls, {"stage", "fail"})) ELSE failedAt
              /\ IF Extracted(name)
                 THEN /\ code' = extract_code(text)
                      /\ kept' = kept
                      /\ calls' = Bump(calls, {"stage", "extract"} \cup fails)
                      /\ IF name = "Developer" /\ code' = <<>>
                         THEN pc' = "stopped" /\ idx' = idx
                         ELSE pc' = "stage" /\ idx' = idx + 1
                      /\ final' = final
                 ELSE /\ code' = code
                      /\ kept' = Append(kept, text)
                      /\ calls' = Bump(calls, {"stage"} \cup fails)
                      /\ IF idx < Len(Chain("new"))
                         THEN pc' = "stage" /\ idx' = idx + 1 /\ final' = final
                         ELSE pc' = "done" /\ idx' = idx
                              /\ final' = Some([code |-> code, reports |-> kept'])
    /\ prompt' = Some(StagePrompt(variant, idx, task, language, code))
    /\ UNCHANGED <<variant, url, task, language, valid, error, firstResult, retryRaw>>
    /\ UNCHANGED <<pureVars, runs>>

Next ==
    \/ Submit
    \/ StageReturns
    \/ StageFails
    \/ Validate
    \/ RetryReturns
    \/ RetryFails
    \/ ValidateRetry
    \/ NewStage

Spec == Init /\ [][Next]_vars

\* once the button is pressed the handler runs on: every call returns or
\* raises (requests times out after 300 s) and the rest is local computation
RunStep ==
    StageReturns \/ StageFails \/ Validate \/ RetryReturns \/ RetryFails
        \/ ValidateRetry \/ NewStage

FairSpec == Spec /\ WF_vars(RunStep)

\* ------------------------------------------- runs served side by side

\* the sessions whose button handlers run at the same time
RunIds == {"a", "b"}

\* a script with the validator and the language choice, and the longest chain
ConcVariants == {"task333", "task44"}

ConcLanguages(v) == IF HasLanguageChoice(v) THEN {"Python", "Java"} ELSE {"Python"}

\* what the model may answer: valid code, or a syntax error in a tagged fence
ConcResponses == {<<"x">>, FencePython \o <<"!">> \o Fence}

\* the locals of a call of programming_assistant that has not begun, and
\* got, the answers the call has received so far
FreshRun ==
    [pc |-> "idle", idx |-> 0, language |-> "Python", code |-> <<>>,
     valid |-> FALSE, error |-> None, kept |-> <<>>, got |-> <<>>,
     retries |-> 0, final |-> None]

InitConc ==
    /\ variant \in ConcVariants /\ url = Some("env") /\ pc = "off" /\ idx = 0
    /\ task = <<>> /\ language = "Python" /\ code = <<>>
    /\ valid = FALSE /\ error = None /\ prompt = None /\ kept = <<>>
    /\ calls = NoCalls
    /\ firstResult = None /\ retryRaw = None /\ final = None /\ failedAt = None
    /\ vIn = <<>> /\ vLang = "Python" /\ vOut = None /\ vAgain = None
    /\ runs = [r \in RunIds |-> FreshRun]

\* the button of session r is pressed with language l selected
ConcSubmit(r) ==
    /\ runs[r].pc = "idle"
    /\ \E l \in ConcLanguages(variant) :
          runs' = [runs EXCEPT ![r] = [@ EXCEPT !.pc = "stage", !.idx = 1,
                                                !.language = l]]
    /\ UNCHANGED <<pipeVars, pureVars>>

\* what run r's locals are after its stage answered with resp
AfterStage(me, resp) ==
    LET last == me.idx = Len(Chain(variant))
        reports == IF Keeps(variant, me.idx) THEN Append(me.kept, resp) ELSE me.kept
    IN  [me EXCEPT !.code = resp,
                   !.got = Append(@, resp),
                   !.kept = reports,
                   !.idx = IF last THEN @ ELSE @ + 1,
                   !.pc = IF ~last THEN "stage"
                          ELSE IF HasValidator(variant) THEN "validate" ELSE "done",
                   !.final = IF last /\ ~HasValidator(variant)
                             THEN Some([code |-> resp, reports |-> reports]) ELSE @]

\* a stage whose answer lands in a variable that all sessions share
ConcStageReturns_shared_code(r) ==
    /\ runs[r].pc = "stage"
    /\ \E resp \in ConcResponses :
          runs' = [q \in RunIds |-> IF q = r THEN AfterStage(runs[r], resp)
                                    ELSE [runs[q] EXCEPT !.code = resp]]
    /\ UNCHANGED <<pipeVars, pureVars>>

\* a stage of run r answers with resp: only r's locals change
ConcStageReturns(r) ==
    /\ runs[r].pc = "stage"
    /\ \E resp \in ConcResponses :
          runs' = [runs EXCEPT ![r] = AfterStage(@, resp)]
    /\ UNCHANGED <<pipeVars, pureVars>>

\* run r validates its code and tests for the retry
ConcValidate(r) ==
    /\ runs[r].pc = "validate"
    /\ \E res \in {Validated(variant, runs[r].code, runs[r].language)} :
          runs' = [runs EXCEPT ![r] =
                      [@ EXCEPT !.valid = res.valid, !.error = res.error,
                                !.code = res.code,
                                !.pc = IF NeedsRetry(variant, res.valid, runs[r].language)
                                       THEN "retry" ELSE "done",
                                !.final = IF NeedsRetry(variant, res.valid, runs[r].language)
                                          THEN None ELSE Some(res)]]
    /\ UNCHANGED <<pipeVars, pureVars>>

\* the retry stage of run r answers with resp
ConcRetryReturns(r) ==
    /\ runs[r].pc = "retry"
    /\ \E resp \in ConcResponses :
          runs' = [runs EXCEPT ![r] =
                      [@ EXCEPT !.code = resp, !.got = Append(@, resp),
                                !.retries = @ + 1, !.pc = "validate2"]]
    /\ UNCHANGED <<pipeVars, pureVars>>

\* run r validates the retried code and returns
ConcValidateRetry(r) ==
    /\ runs[r].pc = "validate2"
    /\ \E res \in {Validated(variant, runs[r].code, runs[r].language)} :
          runs' = [runs EXCEPT ![r] =
                      [@ EXCEPT !.valid = res.valid, !.error = res.error,
                                !.code = res.code, !.pc = "done",
                                !.final = Some(res)]]
    /\ UNCHANGED <<pipeVars, pureVars>>

NextConc ==
    \E r \in RunIds :
        \/ ConcSubmit(r)
        \/ ConcStageReturns(r)
        \/ ConcValidate(r)
        \/ ConcRetryReturns(r)
        \/ ConcValidateRetry(r)

SpecConc == InitConc /\ [][NextConc]_vars

\* ---------------------------------------------------- claims: validator

\* C3: every Validation Result of validate_code, for every input and every
\* language, has a normalized_code without a fence marker and trimmed.
C3_NormalizedCodeClean ==
    vOut # None =>
        /\ ~ContainsFence(TheOne(vOut).code)
        /\ IsTrimmed(TheOne(vOut).code)

PythonSpellings == {"Python", "python", "PYTHON"}

\* C12: for Python in any spelling, a parse success gives is_valid true with
\* no diagnostic, every parser failure gives is_valid false with a diagnostic
\* that is not empty, and the diagnostic is null exactly when the code is valid.
C12_FailureHasNonEmptyDiagnostic ==
    (vOut # None /\ vLang \in PythonSpellings) =>
        LET r == TheOne(vOut)
        IN  /\ r.valid <=> r.error = None
            /\ r.valid <=> \A i \in 1..Len(r.code) : r.code[i] \notin {"!", "~", BT}
            /\ ~r.valid => (r.error # None /\ TheOne(r.error) # EmptyStr)

\* C17: validating the normalized code of a Python validation once more
\* returns the same normalized code and the same verdict.
C17_NormalizationIdempotent ==
    (vAgain # None /\ vLang \in PythonSpellings) =>
        /\ TheOne(vAgain).code = TheOne(vOut).code
        /\ TheOne(vAgain).valid = TheOne(vOut).valid

\* C17 witness: a tagged fence around bad code: the fences go the first time,
\* nothing is left to remove the second time, and the verdict stays invalid
C17_Witness ==
    /\ vLang = "python"
    /\ vIn = <<BT, BT, BT, "p", "!", BT, BT, BT>>
    /\ vAgain # None
    /\ TheOne(vOut).code = <<"!">>
    /\ TheOne(vAgain) = [valid |-> FALSE, error |-> TheOne(vOut).error, code |-> <<"!">>]

\* ---------------------------------------------------- claims: extractor

FenceAt(s, i) ==
    i >= 1 /\ i + 2 <= Len(s) /\ s[i] = BT /\ s[i + 1] = BT /\ s[i + 2] = BT

\* a fence followed at once by the language tag, in either case
TaggedOpenAt(s, i) == FenceAt(s, i) /\ i + 3 <= Len(s) /\ s[i + 3] \in {"p", "P"}

\* the openings of closed tagged blocks: a closing fence follows the tag
TaggedBlocks(s) ==
    {i \in 1..Len(s) : TaggedOpenAt(s, i) /\ \E j \in (i + 4)..Len(s) : FenceAt(s, j)}

Least(S) == CHOOSE m \in S : \A n \in S : m <= n

FirstTaggedInterior(s) ==
    LET i == Least(TaggedBlocks(s))
        j == Least({k \in (i + 4)..Len(s) : FenceAt(s, k)})
    IN  SubSeq(s, i + 4, j - 1)

\* a closed untagged block that ends before position i, with trimmed interior c
GenericBlockBefore(s, i, c) ==
    \E g \in 1..Len(s) : \E h \in 1..Len(s) :
        /\ FenceAt(s, g) /\ ~TaggedOpenAt(s, g)
        /\ h >= g + 3 /\ FenceAt(s, h) /\ h + 3 <= i
        /\ Strip(SubSeq(s, g + 3, h - 1)) = c

\* C10: a text with a closed block tagged with the target language yields the
\* trimmed interior of the first such block, whatever surrounds it and even
\* when an untagged block comes earlier.
C10_TaggedBlockPreferred ==
    (vOut # None /\ TaggedBlocks(vIn) # {}) =>
        TheOne(vOut) = Strip(FirstTaggedInterior(vIn))

\* C10 witness: an untagged block with interior x lies before the tagged
\* block, upper-case tag, and the tagged interior is what came out
C10_Witness ==
    /\ vOut # None
    /\ TaggedBlocks(vIn) # {}
    /\ vIn[Least(TaggedBlocks(vIn)) + 3] = "P"
    /\ GenericBlockBefore(vIn, Least(TaggedBlocks(vIn)), <<"x">>)
    /\ TheOne(vOut) = <<>>

Greatest(S) == CHOOSE m \in S : \A n \in S : n <= m

Fences(s) == {i \in 1..Len(s) : FenceAt(s, i)}

\* two fence markers that do not overlap: what either pattern needs to match
ClosedBlock(s) == \E i \in Fences(s) : \E j \in Fences(s) : j >= i + 3

\* s without its leftmost fence marker
WithoutFirstFence(s) ==
    IF Fences(s) = {} THEN s
    ELSE SubSeq(s, 1, Least(Fences(s)) - 1) \o SubSeq(s, Least(Fences(s)) + 3, Len(s))

\* s from its first to its last character that is not whitespace
Trimmed(s) ==
    LET solid == {i \in 1..Len(s) : s[i] # " "}
    IN  IF solid = {} THEN <<>> ELSE SubSeq(s, Least(solid), Greatest(solid))

TextAlphabet == {BT, "p", "P", " ", "x", "!"}

IsText(s) == DOMAIN s = 1..Len(s) /\ \A i \in 1..Len(s) : s[i] \in TextAlphabet

\* C11: extract_code always returns a string: the empty string for the empty
\* input, and for an input without a closed fenced block the input with its
\* fence markers removed, then trimmed (the trimmed input when it has none).
C11_FallbackStripsFences ==
    vOut # None =>
        /\ IsText(TheOne(vOut))
        /\ vIn = <<>> => TheOne(vOut) = <<>>
        /\ ~ClosedBlock(vIn) =>
              /\ TheOne(vOut) = Trimmed(WithoutFirstFence(vIn))
              /\ ~ContainsFence(TheOne(vOut))
        /\ Fences(vIn) = {} => TheOne(vOut) = Trimmed(vIn)

\* C11 witness: blanks, then four backticks with code after them: one marker
\* goes, one backtick stays
C11_Witness ==
    /\ vOut # None
    /\ vIn = <<" ", BT, BT, BT, BT, "x", " ">>
    /\ TheOne(vOut) = <<BT, "x">>

\* ---------------------------------------------------- claims: run_agent

\* C13: run_agent never raises and always returns a string: the text
\* "[ERROR] <agent name>: <error>" when the agent call fails, the empty string
\* when the response or its content is missing.
C13_RunAgentAlwaysReturnsText ==
    /\ vOut = None => ENABLED RunAgent
    /\ vOut # None =>
          LET out == TheOne(vOut)
          IN  /\ DOMAIN out = 1..Len(out)
              /\ vIn.kind = "raise" => out = <<"[ERROR]", " ", vLang, ":", " ", "e">>
              /\ vIn.kind = "missing" => out = <<>>
              /\ vIn.kind = "content" => out = Trimmed(vIn.content)

\* C13 witness: the Debugger's call raised and run_agent returned the error text
C13_Witness ==
    /\ vIn.kind = "raise"
    /\ vLang = "Debugger"
    /\ vOut = Some(<<"[ERROR]", " ", "Debugger", ":", " ", "e">>)

\* ----------------------------------------------------- claims: pipeline

\* C1: in one run the retry happens zero or one time, the QA stage is invoked
\* at most twice (once in the chain, once as the retry) and the validator is
\* applied at most twice, whatever the model answers.
C1_RetryBound ==
    /\ calls.retry \in {0, 1}
    /\ calls.qa <= 2
    /\ calls.qa <= 1 + calls.retry
    /\ calls.validate <= 2
    /\ calls.validate <= 1 + calls.retry

\* C1 witness: a run that retried and is still invalid at its end
C1_Witness ==
    /\ pc = "done" /\ ~valid
    /\ calls.retry = 1 /\ calls.qa = 2 /\ calls.validate = 2

\* C2: for a target language other than Python, whatever the model answers,
\* the retry stage is never invoked and the run ends valid with no diagnostic.
C2_OtherLanguagesAlwaysValid ==
    (pc # "idle" /\ language \notin {"Python", "python", "PYTHON"}) =>
        /\ calls.retry = 0
        /\ pc \notin {"retry", "validate2"}
        /\ pc = "done" =>
              /\ valid /\ error = None
              /\ TheOne(final).valid /\ TheOne(final).error = None

\* C2 witness: a Java run ends valid on text that is a syntax error
C2_Witness ==
    /\ pc = "done" /\ language = "Java" /\ valid
    /\ TheOne(final).code = <<"!">>

AllBlank(t) == \A i \in 1..Len(t) : t[i] = " "

\* C6: a submission with no task description (empty; in new.py also blank) is
\* rejected before any stage: no call is made and no run is entered.
C6_EmptyInputRejected ==
    (pc # "idle" /\ (task = <<>> \/ (variant = "new" /\ AllBlank(task)))) =>
        /\ pc = "rejected"
        /\ calls = NoCalls
        /\ prompt = None /\ final = None /\ firstResult = None

\* C6 witness: new.py rejects a blank task
C6_Witness == variant = "new" /\ task = <<" ">> /\ pc = "rejected"

\* C7, as claimed: once the retry stage has been entered the run reaches Done
\* unconditionally, so it never ends aborted.
C7_RetryAlwaysReachesDone == calls.retry >= 1 => pc # "aborted"

C7_AfterRetry ==
    calls.retry >= 1 =>
        /\ calls.retry = 1
        /\ pc \in {"validate2", "done", "aborted"}
        /\ pc = "aborted" => (calls.fail = 1 /\ final = None /\ retryRaw = None)
        /\ pc = "done" =>
              /\ final = Some(Validated(variant, TheOne(retryRaw), language))
              /\ TheOne(final).code = code
              /\ TheOne(final).valid = valid
              /\ TheOne(final).error = error
              /\ ~ContainsFence(code) /\ IsTrimmed(code)

\* C7, amended: once the retry stage's call has returned, the run reaches Done
\* with no further retry, even if the code is still invalid, and Done yields the
\* retry's code, normalized, with the verdict and diagnostic of the second
\* validation; if the retry stage's call itself fails the run aborts and
\* yields nothing.
C7_RetryReturnedReachesDone ==
    /\ []C7_AfterRetry
    /\ (pc = "validate2") ~> (pc = "done")

\* C7 witness: still invalid after the retry, with another code and another
\* diagnostic than the first validation gave
C7_Witness ==
    /\ pc = "done" /\ calls.retry = 1 /\ ~valid
    /\ TheOne(final).code # TheOne(firstResult).code
    /\ TheOne(final).error # TheOne(firstResult).error

C8_AfterFirstValidation ==
    (language = "Python" /\ firstResult # None) =>
        IF TheOne(firstResult).valid
        THEN /\ pc = "done" /\ calls.retry = 0
             /\ valid /\ error = None /\ final = firstResult
             /\ calls.stage = Len(Chain(variant))
             /\ variant \in {"task333", "task33", "task3333"} =>
                   (calls.stage = 2 /\ calls.qa = 1)
        ELSE \/ pc = "retry" /\ calls.retry = 0
             \/ pc \in {"validate2", "done", "aborted"} /\ calls.retry = 1

\* C8: for Python the retry stage is invoked exactly once when the first
\* validation fails and never when it passes; when it passes the run is Done,
\* valid, without diagnostic, after the stage calls of the chain alone (two in
\* the Developer, QA scripts).
C8_RetryIffFirstValidationFails ==
    /\ []C8_AfterFirstValidation
    /\ []((language = "Python" /\ firstResult = None) => calls.retry = 0)
    /\ (pc = "retry") ~> (calls.retry = 1)

\* C8 witness: a Python run of task333.py done after two stage calls
C8_Witness ==
    /\ variant = "task333" /\ language = "Python" /\ pc = "done"
    /\ calls.stage = 2 /\ calls.retry = 0 /\ valid

\* C9: with OLLAMA_URL absent at process start a configuration error is
\* surfaced before any run: no run is started and no stage is invoked.
C9_NoRunWithoutUrl == url = None => (pc \in {"idle", "rejected"} /\ calls.stage = 0)

\* ------------------------------------------------ claims: order of steps

\* a stage was called in this step and its answer came back
StageAnswered == pc = "stage" /\ pc' \in {"stage", "validate", "done", "stopped"}

NewOrder == <<"Explainer", "Developer", "Debugger", "Reviewer", "UseCaseGenerator">>

\* C16: in new.py an empty code out of the Developer's text stops the run:
\* two stages were called, no later one is, and no final code is shown;
\* otherwise the five stages run in order and the final code is the code
\* extracted from the Debugger's text, which the Reviewer and the
\* UseCaseGenerator leave as it is whatever they return.
C16_EmptyCodeStopsElseDebuggerCodeIsFinal ==
    /\ []((variant = "new" /\ pc = "stopped") =>
            /\ code = <<>>
            /\ calls.stage = 2
            /\ TheOne(prompt).stage = "Developer"
            /\ final = None)
    /\ []((variant = "new" /\ final # None) =>
            /\ pc = "done"
            /\ calls.stage = 5
            /\ TheOne(final).code = code)
    /\ [][(variant = "new" /\ pc = "stopped") => UNCHANGED vars]_vars
    /\ [][(variant = "new" /\ StageAnswered) =>
            /\ TheOne(prompt').stage = NewOrder[idx]
            /\ calls'.stage = idx
            /\ idx = 2 => (pc' = "stopped" <=> code' = <<>>)
            /\ idx # 2 => pc' # "stopped"
            /\ idx = 3 =>
                  \E o \in Outcomes : code' = extract_code(run_agent("Debugger", o))
            /\ idx \in {4, 5} => code' = code
            /\ pc' = "done" <=> idx = 5]_vars

\* C16 witness: the run is Done with the Debugger's code as final code
\* although the review is a bare syntax error and not an approval
C16_Witness ==
    /\ variant = "new" /\ pc = "done"
    /\ TheOne(prompt).stage = "UseCaseGenerator"
    /\ TheOne(prompt).code = Some(<<"x">>)
    /\ TheOne(final).reports[2] = <<"!">>
    /\ TheOne(final).code = <<"x">>

\* ------------------------------------------- claims: runs side by side

\* what one call returns when it runs alone, from its language and the
\* answers it is given, in the order it is given them (a call that needs a
\* third answer and is given none has one retry still to make)
Alone(v, l, answers) ==
    IF v = "task44"
    THEN [final |-> [code |-> answers[6], reports |-> <<answers[1], answers[5]>>],
          retries |-> 0]
    ELSE LET first == validate_code(answers[2], l)
         IN  IF first.valid \/ l # "Python"
             THEN [final |-> first, retries |-> 0]
             ELSE [final |-> IF Len(answers) >= 3 THEN validate_code(answers[3], l)
                             ELSE first,
                   retries |-> 1]

\* C15: of two runs whose stage calls interleave, each returns the code,
\* validity flag, diagnostic and retry count that its own language and the
\* answers it received give when it runs alone.
C15_InterleavedRunsAreIndependent ==
    \A r \in RunIds :
        runs[r].pc = "done" =>
            /\ runs[r].final = Some(Alone(variant, runs[r].language, runs[r].got).final)
            /\ runs[r].retries = Alone(variant, runs[r].language, runs[r].got).retries

\* C15 witness: run a is Done, valid after a retry, while run b, which got
\* a syntax error where a got good code, stands before its own retry
C15_Witness ==
    /\ variant = "task333"
    /\ runs["a"].pc = "done" /\ runs["a"].retries = 1
    /\ TheOne(runs["a"].final) = [valid |-> TRUE, error |-> None, code |-> <<"x">>]
    /\ runs["b"].pc = "retry" /\ runs["b"].language = "Python"
    /\ runs["b"].code = <<"!">>

====
